---- MODULE Spec2Model ----
(***************************************************************************)
(* Model of script.py: a pass (main) loads the ledger (state.json), fetches *)
(* the calendar feed, evaluates the four notification categories in order   *)
(* (daily, reminder, results, weekly), posts their messages to Discord and  *)
(* saves the ledger.  Time is local wall-clock time in seconds; day 0 of    *)
(* the model is a Sunday, so day 1 opens a new ISO week.                    *)
(* chunk_messages, the normalisation of a feed record, the ordering of the  *)
(* digests and the retry loop of post_discord are also studied on their   *)
(* own, each under a specification that applies it to every input of a     *)
(* bounded set.                                                            *)
(***************************************************************************)
EXTENDS Integers, Sequences, FiniteSets, TLC

VARIABLES
    now,          \* main: now (seconds of local wall-clock time); between passes: time of the last pass
    pc,           \* position of the running pass, "idle" between passes
    file,         \* content of STATE_FILE on disk
    reminded, daily_sent, results_sent, weekly_sent,   \* main: the four in-memory key sets
    events,       \* main: events (get_events(fetch_json(JSON_URL)))
    todays_high,  \* main: todays_high
    kind,         \* category whose messages are being posted
    msgs,         \* messages of that category still to be posted
    passNo,       \* number of passes started so far
    handed,       \* history: [cat, key, pass] with at least one message accepted by Discord
    delivered,    \* history: [cat, key, pass] with every message of the category accepted
    covered,      \* history: <<cat, key>> whose delivery window contained the start of some pass
    fault,        \* history: what ended the current/last pass abnormally ("none" otherwise)
    fileAtStart,  \* history: file content when the current/last pass started
    loaded,       \* history: ledger returned by load_state in the current/last pass
    evaluated,    \* history: categories whose fire condition was evaluated in the current/last pass
    firedKeys,    \* history: <<cat, key>> whose fire condition held in the current/last pass
    faults,       \* history: how passes ended abnormally so far, "handoff" or "other" (empty: every pass ran to the end of save_state)
    persisted,    \* history: ledger written by the last completed save_state
    failedKeys,   \* history: <<cat, key>> for which post_discord raised in some pass
    badFeed,      \* history: the feed of the current/last pass held a HIGH event without usable timestamp
    named,        \* history: titles of the events named in reminder messages that Discord accepted
    input,        \* argument of the function under study (chunk_messages, normalize_impact, the sort, post_discord)
    output        \* what the function under study has produced so far

vars == <<now, pc, file, reminded, daily_sent, results_sent, weekly_sent, events,
          todays_high, kind, msgs, passNo, handed, delivered, covered,
          fault, fileAtStart, loaded, evaluated, firedKeys, faults, persisted, failedKeys, badFeed,
          named, input, output>>

\* ---- bounds of the model ----
NumDays == 2
MaxPasses == 2
MaxFinePasses == 1
MaxEvents == 1
MaxBlocks == 3
MaxSorted == 3

\* ---- program constants ----
DISCORD_MAX_LEN == 2000
DAILY_AFTER_MINUTES == 1
REMINDER_START_HOUR == 10
REMINDER_START_MINUTE == 0
REMINDER_WINDOW_MINUTES == 14 * 60
RESULTS_START_HOUR == 23
RESULTS_START_MINUTE == 0
RESULTS_WINDOW_MINUTES == 10 * 60
WEEKLY_SUNDAY_START_HOUR == 18
WEEKLY_SUNDAY_START_MINUTE == 0
WEEKLY_SUNDAY_WINDOW_MINUTES == 6 * 60
max_retries == 8

\* ---- time ----
Minute == 60
Hour == 60 * Minute
Day == 24 * Hour
Days == 0 .. (NumDays - 1)

\* seconds of the day at which a pass may start: the window anchors
Offsets == { Minute, 10 * Hour, 18 * Hour, 23 * Hour }
\* the same with midnight, 09:00 and the second before each anchor
FineOffsets == Offsets \cup { 0, Minute - 1, 9 * Hour, 10 * Hour - 1, 18 * Hour - 1, 23 * Hour - 1 }
Instants == { d * Day + o : d \in Days, o \in Offsets }
FineInstants == { d * Day + o : d \in Days, o \in FineOffsets }

\* now.replace(hour=0, minute=0, second=0, microsecond=0)
today_start_of(t) == (t \div Day) * Day
\* now.hour
hour_of(t) == (t % Day) \div Hour
\* datetime.weekday(): Monday = 0 .. Sunday = 6; day 0 of the model is a Sunday
weekday_of(t) == ((t \div Day) + 6) % 7
\* strftime("%Y-%m-%d") of a local midnight: one key per calendar date
date_key(start) == [prefix |-> "", unit |-> "date", n |-> start \div Day]
\* strftime("%G-%V") of a local midnight: ISO weeks run Monday..Sunday
iso_week_key(start) == [prefix |-> "", unit |-> "week", n |-> ((start \div Day) + 6) \div 7]
\* f"reminder-{key}", f"results-{key}"
prefixed(p, key) == [key EXCEPT !.prefix = p]

CatSet == {"daily", "reminder", "results", "weekly"}

\* ---- ledger file ----
EmptyLedger == [reminded |-> {}, daily_sent |-> {}, results_sent |-> {}, weekly_sent |-> {}]
MissingFile == [kind |-> "missing", data |-> EmptyLedger]
PartialFile == [kind |-> "partial", data |-> EmptyLedger]
LedgerFile(l) == [kind |-> "ledger", data |-> l]
\* valid JSON that is not an object, such as [] or 7
NotObjectFile == [kind |-> "notobject", data |-> EmptyLedger]
\* a JSON object that holds a number or null under "reminded"; `data`
\* carries what its other three keys hold
BadFieldFile(l) == [kind |-> "badfield", data |-> l]

\* load_state: a missing or unparsable file gives four empty lists, and so
\* does JSON that is not an object (setdefault raises inside the try); an
\* object is returned as it is, absent keys filled with []
load_state(f) == IF f.kind \in {"ledger", "badfield"} THEN f.data ELSE EmptyLedger

\* main, lines 317-320: set(state[...]) raises TypeError on a value that
\* cannot be iterated
sets_raise(f) == f.kind = "badfield"

\* ---- feed ----
Title(name, len) == [name |-> name, len |-> len]
Event(impact, dtKind, at, title) ==
    [impact |-> impact, dtKind |-> dtKind, at |-> at, title |-> title]

\* inputs: a HIGH event on day 1 whose title fills most of a message, and
\* records with a missing or an unparsable timestamp
EventPool ==
    { Event("HIGH", "ok", Day + 18 * Hour + 30 * Minute, Title("A", 1900)),
      Event("HIGH", "missing", 0, Title("D", 3)),
      Event("high", "invalid", 0, Title("E", 3)),
      Event("LOW", "invalid", 0, Title("F", 3)) }

RECURSIVE SeqsUpTo(_, _)
SeqsUpTo(S, n) ==
    IF n = 0 THEN { <<>> }
    ELSE LET shorter == SeqsUpTo(S, n - 1)
         IN  shorter \cup { Append(s, e) : s \in shorter, e \in S }
Feeds == SeqsUpTo(EventPool, MaxEvents)

\* str(...).upper() of the impact value
Upper(s) == IF s = "high" THEN "HIGH" ELSE IF s = "low" THEN "LOW" ELSE s
normalize_impact(ev) == Upper(ev.impact)

\* parse_dt_local: "none" for a record without timestamp, "raise" where
\* datetime.fromisoformat raises ValueError, otherwise the local time
parse_dt_local(ev) ==
    IF ev.dtKind = "missing" THEN [res |-> "none", at |-> 0]
    ELSE IF ev.dtKind = "invalid" THEN [res |-> "raise", at |-> 0]
    ELSE [res |-> "dt", at |-> ev.at]

\* a loop of main over events that calls parse_dt_local on every HIGH record
\* raises at the first record whose timestamp does not parse
LoopRaises(evs) ==
    \E i \in 1 .. Len(evs) :
        normalize_impact(evs[i]) = "HIGH" /\ parse_dt_local(evs[i]).res = "raise"

\* the HIGH records of evs whose time lies in [lo, hi), in feed order
RECURSIVE HighIn(_, _, _)
HighIn(evs, lo, hi) ==
    IF evs = <<>> THEN <<>>
    ELSE LET ev == Head(evs)
             dt == parse_dt_local(ev)
             rest == HighIn(Tail(evs), lo, hi)
         IN  IF normalize_impact(ev) = "HIGH" /\ dt.res = "dt" /\ lo <= dt.at /\ dt.at < hi
             THEN <<ev>> \o rest
             ELSE rest

\* list.sort(key=lambda x: x[1]): stable, ascending by time
RECURSIVE InsertByDt(_, _)
InsertByDt(sorted, ev) ==
    IF sorted = <<>> THEN <<ev>>
    ELSE IF Head(sorted).at <= ev.at THEN <<Head(sorted)>> \o InsertByDt(Tail(sorted), ev)
    ELSE <<ev>> \o sorted
RECURSIVE SortByDt(_)
SortByDt(evs) ==
    IF evs = <<>> THEN <<>>
    ELSE InsertByDt(SortByDt(SubSeq(evs, 1, Len(evs) - 1)), evs[Len(evs)])

\* ---- message texts, by their length in characters ----
\* footer of chunk_messages: "\n\n" + link line
FooterLen == 66
\* the "\n\n" that joins header and blocks
SepLen == 2
\* f"📅 **Crypto Craft – HIGH impact ({display_date})**"
DailyHeaderLen == 45
\* "🔥 Impact: HIGH\n⏰ HH:MM TZ\n📌 " before the title
DailyBlockPrefixLen == 29
\* "Geen HIGH impact events vandaag."
DailyEmptyBlockLen == 32
\* f"⏰ **Dag reminder – HIGH impact vandaag ({display_date})**"
ReminderHeaderLen == 53
\* "⏰ HH:MM TZ\n📌 " before the title
ReminderBlockPrefixLen == 14
\* f"⏰ **Dag reminder ({display_date})**\n\nGeen HIGH impact events vandaag."
ReminderEmptyMsgLen == 65
\* f"📊 **Daguitslag – HIGH impact ({results_effective_date})**"
ResultsHeaderLen == 43
\* emoji, "**" marks, time line and the Actual/Forecast/Previous/Resultaat lines around the title
ResultsBlockFrameLen == 70
\* header + "\n\nNog geen resultaten beschikbaar." + link line
ResultsEmptyMsgLen == 143
\* f"📅 **Crypto Craft – HIGH impact weekoverzicht ({week_start_label} – {week_end_label})**"
WeeklyHeaderLen == 72
\* "**— {weekday} dd-mm-YYYY —**" without the weekday name
WeeklyLabelFrameLen == 19
\* "Geen HIGH impact events aankomende week."
WeeklyEmptyBlockLen == 40

\* weekday_nl: length of the Dutch weekday name (Maandag .. Zondag)
weekday_nl_len(t) ==
    LET names == <<7, 7, 8, 9, 7, 8, 6>> IN names[weekday_of(t) + 1]

Block(titles, len) == [titles |-> titles, len |-> len]
Message(blocks, len) == [blocks |-> blocks, len |-> len]

\* chunk_loop that leaves out the block that did not fit
RECURSIVE chunk_loop_dropping(_, _, _, _)
chunk_loop_dropping(blocks, headerLen, msgsOut, current) ==
    IF blocks = <<>> THEN Append(msgsOut, Message(current.blocks, current.len + FooterLen))
    ELSE LET b == Head(blocks)
             test == current.len + SepLen + b.len + FooterLen
         IN  IF test > DISCORD_MAX_LEN
             THEN chunk_loop_dropping(Tail(blocks), headerLen,
                             Append(msgsOut, Message(current.blocks, current.len + FooterLen)),
                             Message(<<>>, headerLen))
             ELSE chunk_loop_dropping(Tail(blocks), headerLen, msgsOut,
                             Message(Append(current.blocks, b), current.len + SepLen + b.len))
\* chunk_messages(blocks, header); `current` is carried as its blocks and its length
RECURSIVE chunk_loop(_, _, _, _)
chunk_loop(blocks, headerLen, msgsOut, current) ==
    IF blocks = <<>> THEN Append(msgsOut, Message(current.blocks, current.len + FooterLen))
    ELSE LET b == Head(blocks)
             test == current.len + SepLen + b.len + FooterLen
         IN  IF test > DISCORD_MAX_LEN
             THEN chunk_loop(Tail(blocks), headerLen,
                             Append(msgsOut, Message(current.blocks, current.len + FooterLen)),
                             Message(<<b>>, headerLen + SepLen + b.len))
             ELSE chunk_loop(Tail(blocks), headerLen, msgsOut,
                             Message(Append(current.blocks, b), current.len + SepLen + b.len))
chunk_messages(blocks, headerLen) ==
    chunk_loop(blocks, headerLen, <<>>, Message(<<>>, headerLen))

\* the event titles that message m shows
TitlesIn(m) ==
    UNION { { m.blocks[i].titles[j] : j \in DOMAIN m.blocks[i].titles } : i \in DOMAIN m.blocks }

\* one block per event: a fixed frame around the title
EventBlocks(evs, frameLen) ==
    [i \in 1 .. Len(evs) |-> Block(<<evs[i].title.name>>, frameLen + evs[i].title.len)]

\* messages of the daily digest (lines 344-352)
daily_messages(high) ==
    chunk_messages(IF high # <<>> THEN EventBlocks(high, DailyBlockPrefixLen)
                   ELSE <<Block(<<>>, DailyEmptyBlockLen)>>,
                   DailyHeaderLen)

\* messages of the reminder (lines 366-375)
reminder_messages(high) ==
    IF high # <<>>
    THEN chunk_messages(EventBlocks(high, ReminderBlockPrefixLen), ReminderHeaderLen)
    ELSE << Message(<<>>, ReminderEmptyMsgLen) >>

\* messages of the results digest (lines 404-439): blocks in feed order
results_messages(evs, lo, hi) ==
    LET shown == HighIn(evs, lo, hi)
    IN  IF shown # <<>>
        THEN chunk_messages(EventBlocks(shown, ResultsBlockFrameLen), ResultsHeaderLen)
        ELSE << Message(<<>>, ResultsEmptyMsgLen) >>

\* blocks of the weekly digest (lines 467-483): one block per day, days ascending
RECURSIVE weekly_blocks(_)
weekly_blocks(upcoming) ==
    IF upcoming = <<>> THEN <<>>
    ELSE LET d == today_start_of(Head(upcoming).at)
             items == SelectSeq(upcoming, LAMBDA e : today_start_of(e.at) = d)
             rest == SelectSeq(upcoming, LAMBDA e : today_start_of(e.at) # d)
             RECURSIVE lines_len(_)
             lines_len(s) == IF s = <<>> THEN 0
                             ELSE SepLen + ReminderBlockPrefixLen + Head(s).title.len
                                  + lines_len(Tail(s))
         IN  << Block([i \in 1 .. Len(items) |-> items[i].title.name],
                      WeeklyLabelFrameLen + weekday_nl_len(d) + lines_len(items)) >>
             \o weekly_blocks(rest)

\* messages of the weekly digest (lines 453-490)
weekly_messages(evs, week_start, week_end) ==
    LET upcoming_high == SortByDt(HighIn(evs, week_start, week_end))
    IN  chunk_messages(IF upcoming_high # <<>> THEN weekly_blocks(upcoming_high)
                       ELSE <<Block(<<>>, WeeklyEmptyBlockLen)>>,
                       WeeklyHeaderLen)

\* ---- delivery windows of the occurrences (anchor and tolerance per category) ----
\* the occurrences within reach of the modelled days
OccKeys(c) ==
    IF c = "weekly" THEN { iso_week_key(d * Day) : d \in Days }
    ELSE { prefixed(IF c = "daily" THEN "" ELSE IF c = "reminder" THEN "reminder-" ELSE "results-",
                    date_key(d * Day)) : d \in (-1) .. (NumDays - 1) }
Occurrences == UNION { { <<c, k>> : k \in OccKeys(c) } : c \in CatSet }

\* the window's start: trigger time on the occurrence's date (the Sunday of a week)
Anchor(c, k) ==
    IF c = "daily" THEN k.n * Day + DAILY_AFTER_MINUTES * Minute
    ELSE IF c = "reminder" THEN k.n * Day + REMINDER_START_HOUR * Hour + REMINDER_START_MINUTE * Minute
    ELSE IF c = "results" THEN k.n * Day + RESULTS_START_HOUR * Hour + RESULTS_START_MINUTE * Minute
    ELSE (7 * k.n) * Day + WEEKLY_SUNDAY_START_HOUR * Hour + WEEKLY_SUNDAY_START_MINUTE * Minute

\* the window's length in seconds; the daily digest is due for the rest of its date
Tolerance(c) ==
    IF c = "daily" THEN Day - DAILY_AFTER_MINUTES * Minute
    ELSE IF c = "reminder" THEN REMINDER_WINDOW_MINUTES * Minute
    ELSE IF c = "results" THEN RESULTS_WINDOW_MINUTES * Minute
    ELSE WEEKLY_SUNDAY_WINDOW_MINUTES * Minute

InWindow(t, c, k) == Anchor(c, k) <= t /\ t < Anchor(c, k) + Tolerance(c)

\* ---- fire conditions of main ----
\* line 334
daily_key(t) == date_key(today_start_of(t))
\* daily_due without the ledger check
daily_due_unchecked(t, sent) ==
    t >= today_start_of(t) + DAILY_AFTER_MINUTES * Minute
\* daily_due with the start of the window excluded
daily_due_strict(t, sent) ==
    daily_key(t) \notin sent /\ t > today_start_of(t) + DAILY_AFTER_MINUTES * Minute
\* line 343
daily_due(t, sent) ==
    daily_key(t) \notin sent /\ t >= today_start_of(t) + DAILY_AFTER_MINUTES * Minute

\* lines 357-359
reminder_key(t) == prefixed("reminder-", daily_key(t))
reminder_start(t) == today_start_of(t) + REMINDER_START_HOUR * Hour + REMINDER_START_MINUTE * Minute
reminder_end(t) == reminder_start(t) + REMINDER_WINDOW_MINUTES * Minute
\* reminder_due without the ledger check
reminder_due_unchecked(t, sent) ==
    reminder_start(t) <= t /\ t < reminder_end(t)
\* line 365
reminder_due(t, sent) ==
    reminder_key(t) \notin sent /\ reminder_start(t) <= t /\ t < reminder_end(t)

\* results_target with the key always taken from today's date
results_target_today_key(t) ==
    LET yesterday_start == today_start_of(t) - Day
        day_start == IF hour_of(t) < 9 THEN yesterday_start ELSE today_start_of(t)
        start == day_start + RESULTS_START_HOUR * Hour + RESULTS_START_MINUTE * Minute
    IN  [ key |-> prefixed("results-", date_key(today_start_of(t))),
          day_start |-> day_start,
          day_end |-> day_start + Day,
          start |-> start,
          end |-> start + RESULTS_WINDOW_MINUTES * Minute ]
\* lines 379-397: before 09:00 the results digest is the one of yesterday
results_target(t) ==
    LET yesterday_start == today_start_of(t) - Day
        day_start == IF hour_of(t) < 9 THEN yesterday_start ELSE today_start_of(t)
        start == day_start + RESULTS_START_HOUR * Hour + RESULTS_START_MINUTE * Minute
    IN  [ key |-> prefixed("results-", date_key(day_start)),
          day_start |-> day_start,
          day_end |-> day_start + Day,
          start |-> start,
          end |-> start + RESULTS_WINDOW_MINUTES * Minute ]
\* line 403
results_due(t, sent) ==
    LET r == results_target(t)
    IN  r.key \notin sent /\ r.start <= t /\ t < r.end

\* lines 444-446
weekly_key(t) == iso_week_key(today_start_of(t))
weekly_start(t) == today_start_of(t) + WEEKLY_SUNDAY_START_HOUR * Hour
                   + WEEKLY_SUNDAY_START_MINUTE * Minute
weekly_end(t) == weekly_start(t) + WEEKLY_SUNDAY_WINDOW_MINUTES * Minute
\* weekly_due without the ledger check
weekly_due_unchecked(t, sent) ==
    weekday_of(t) = 6 /\ weekly_start(t) <= t /\ t < weekly_end(t)
\* weekly_due without the Sunday check
weekly_due_any_day(t, sent) ==
    weekly_key(t) \notin sent /\ weekly_start(t) <= t /\ t < weekly_end(t)
\* line 452
weekly_due(t, sent) ==
    weekly_key(t) \notin sent /\ weekday_of(t) = 6 /\ weekly_start(t) <= t /\ t < weekly_end(t)

\* key of the category being posted
CurKey(c, t) ==
    IF c = "daily" THEN daily_key(t)
    ELSE IF c = "reminder" THEN reminder_key(t)
    ELSE IF c = "results" THEN results_target(t).key
    ELSE weekly_key(t)

\* position of main after the block of category c
AfterCat(c) ==
    IF c = "daily" THEN "reminder"
    ELSE IF c = "reminder" THEN "results"
    ELSE IF c = "results" THEN "weekly"
    ELSE "save"

\* ---- post_discord ----
\* what the webhook answers to the successive attempts of one call: "ok",
\* "429" (Retry-After absent, not a number, or a number from 0 up), "429neg"
\* (a 429 whose Retry-After is a negative number or NaN), "http" (an HTTP
\* error other than 429) or "error" (anything else)
Run(r, n) == [i \in 1 .. n |-> r]
Replies ==
    { <<"ok">>, <<"http">>, <<"429", "ok">>, <<"error", "http">>,
      Append(Run("error", max_retries - 1), "ok"),
      Run("429", max_retries), Run("error", max_retries) }

\* one turn of the loop, lines 128-178: return at line 142, RuntimeError at
\* line 172, ValueError out of time.sleep(min(wait_s, 30)) at line 169 for a
\* negative or NaN wait, otherwise sleep and go round again
attempt_outcome(reply) ==
    IF reply = "ok" THEN "return"
    ELSE IF reply \in {"http", "429neg"} THEN "raise"
    ELSE "again"

\* the loop of lines 127-180 from attempt `attempt` on
RECURSIVE post_discord(_, _)
post_discord(replies, attempt) ==
    IF attempt > max_retries THEN "raise"
    ELSE IF attempt_outcome(replies[attempt]) = "again" THEN post_discord(replies, attempt + 1)
    ELSE attempt_outcome(replies[attempt])

\* ---- the pass ----
PassInit(f, p) ==
    /\ now = -1
    /\ pc = p
    /\ file = f
    /\ reminded = {} /\ daily_sent = {} /\ results_sent = {} /\ weekly_sent = {}
    /\ events = <<>> /\ todays_high = <<>>
    /\ kind = "none" /\ msgs = <<>>
    /\ passNo = 0
    /\ handed = {} /\ delivered = {} /\ covered = {}
    /\ fault = "none"
    /\ fileAtStart = f
    /\ loaded = EmptyLedger
    /\ evaluated = {} /\ firedKeys = {}
    /\ faults = {}
    /\ persisted = EmptyLedger
    /\ failedKeys = {}
    /\ badFeed = FALSE
    /\ named = {}

\* the first pass finds no state.json
Init == PassInit(MissingFile, "idle") /\ input = <<>> /\ output = <<>>

\* the process ends: its memory is gone
ClearMemory ==
    /\ reminded' = {} /\ daily_sent' = {} /\ results_sent' = {} /\ weekly_sent' = {}
    /\ events' = <<>> /\ todays_high' = <<>>
    /\ kind' = "none" /\ msgs' = <<>>

\* an exception nobody catches leaves main
Raise(f) ==
    /\ pc' = "idle"
    /\ fault' = f
    /\ faults' = faults \cup { IF f = "handoff" THEN "handoff" ELSE "other" }
    /\ ClearMemory

\* main, lines 312-320: a pass starts at instant t and loads the ledger
Begin(t) ==
    /\ pc = "idle"
    /\ t > now
    /\ now' = t
    /\ passNo' = passNo + 1
    /\ fileAtStart' = file
    /\ loaded' = load_state(file)
    /\ evaluated' = {} /\ firedKeys' = {}
    /\ badFeed' = FALSE
    /\ covered' = covered \cup { o \in Occurrences : InWindow(t, o[1], o[2]) }
    /\ IF sets_raise(file)
       THEN Raise("ledger")
       ELSE /\ pc' = "fetch"
            /\ reminded' = load_state(file).reminded
            /\ daily_sent' = load_state(file).daily_sent
            /\ results_sent' = load_state(file).results_sent
            /\ weekly_sent' = load_state(file).weekly_sent
            /\ fault' = "none"
            /\ UNCHANGED <<events, todays_high, kind, msgs, faults>>
    /\ UNCHANGED <<file, handed, delivered, persisted, failedKeys, named, input, output>>

\* the scheduler starts main at one of the instants
StartPass(t) == passNo < MaxPasses /\ Begin(t)
StartFinePass(t) == passNo < MaxFinePasses /\ Begin(t)

\* fetch_json's error swallowed: the pass goes on with an empty event list
fetch_raises_ignored ==
    /\ UNCHANGED <<named, input, output>>
    /\ pc = "fetch"
    /\ fault' = "fetch"
    /\ events' = <<>> /\ todays_high' = <<>>
    /\ pc' = "daily"
    /\ UNCHANGED <<now, file, reminded, daily_sent, results_sent, weekly_sent, kind, msgs,
                   passNo, handed, delivered, covered, fileAtStart, loaded, evaluated,
                   firedKeys, faults, persisted, failedKeys, badFeed>>
\* main, line 322: fetch_json raises
fetch_raises ==
    /\ UNCHANGED <<named, input, output>>
    /\ pc = "fetch"
    /\ Raise("fetch")
    /\ UNCHANGED <<now, file, passNo, handed, delivered, covered, fileAtStart, loaded,
                   evaluated, firedKeys, persisted, failedKeys, badFeed>>

\* main, lines 322-335: the feed arrives and today's HIGH events are collected
fetch_and_filter(feed) ==
    /\ UNCHANGED <<named, input, output>>
    /\ pc = "fetch"
    /\ badFeed' = \E i \in 1 .. Len(feed) :
                     normalize_impact(feed[i]) = "HIGH" /\ feed[i].dtKind # "ok"
    /\ IF LoopRaises(feed)
       THEN Raise("malformed")
       ELSE /\ events' = feed
            /\ todays_high' = SortByDt(HighIn(feed, today_start_of(now), today_start_of(now) + Day))
            /\ pc' = "daily"
            /\ UNCHANGED <<reminded, daily_sent, results_sent, weekly_sent, kind, msgs,
                           fault, faults>>
    /\ UNCHANGED <<now, file, passNo, handed, delivered, covered, fileAtStart, loaded,
                   evaluated, firedKeys, persisted, failedKeys>>

\* a category's block of main up to its first post_discord call
Evaluate(c, due, messages) ==
    /\ UNCHANGED <<named, input, output>>
    /\ pc = c
    /\ evaluated' = evaluated \cup {c}
    /\ IF due
       THEN /\ firedKeys' = firedKeys \cup { <<c, CurKey(c, now)>> }
            /\ kind' = c
            /\ msgs' = messages
            /\ pc' = "post"
       ELSE /\ pc' = AfterCat(c)
            /\ UNCHANGED <<firedKeys, kind, msgs>>
    /\ UNCHANGED <<now, file, reminded, daily_sent, results_sent, weekly_sent, events,
                   todays_high, passNo, handed, delivered, covered, fault, fileAtStart,
                   loaded, faults, persisted, failedKeys, badFeed>>

\* lines 343-352
Daily == Evaluate("daily", daily_due(now, daily_sent), daily_messages(todays_high))
\* lines 357-375
Reminder == Evaluate("reminder", reminder_due(now, reminded), reminder_messages(todays_high))
\* lines 379-439
Results ==
    Evaluate("results", results_due(now, results_sent),
             results_messages(events, results_target(now).day_start, results_target(now).day_end))
\* lines 444-490
Weekly ==
    Evaluate("weekly", weekly_due(now, weekly_sent),
             weekly_messages(events, today_start_of(now) + Day, today_start_of(now) + 8 * Day))

\* AddKey that puts the key into all four sets
AddKey_all(c, key) ==
    /\ daily_sent' = daily_sent \cup {key}
    /\ reminded' = reminded \cup {key}
    /\ results_sent' = results_sent \cup {key}
    /\ weekly_sent' = weekly_sent \cup {key}
\* lines 354, 376, 441, 492: the key of category c enters its set
AddKey(c, key) ==
    /\ daily_sent' = IF c = "daily" THEN daily_sent \cup {key} ELSE daily_sent
    /\ reminded' = IF c = "reminder" THEN reminded \cup {key} ELSE reminded
    /\ results_sent' = IF c = "results" THEN results_sent \cup {key} ELSE results_sent
    /\ weekly_sent' = IF c = "weekly" THEN weekly_sent \cup {key} ELSE weekly_sent

\* post_discord returns: the webhook took the message; after the last
\* message of the category main marks the key (lines 354, 376, 441, 492)
post_discord_returns(replies) ==
    /\ pc = "post"
    /\ named' = IF kind = "reminder" THEN named \cup TitlesIn(Head(msgs)) ELSE named
    /\ UNCHANGED <<input, output>>
    /\ post_discord(replies, 1) = "return"
    /\ handed' = handed \cup { [cat |-> kind, key |-> CurKey(kind, now), pass |-> passNo] }
    /\ IF Len(msgs) = 1
       THEN /\ AddKey(kind, CurKey(kind, now))
            /\ delivered' = delivered \cup
                              { [cat |-> kind, key |-> CurKey(kind, now), pass |-> passNo] }
            /\ pc' = AfterCat(kind)
            /\ kind' = "none" /\ msgs' = <<>>
       ELSE /\ msgs' = Tail(msgs)
            /\ UNCHANGED <<pc, kind, delivered, reminded, daily_sent, results_sent, weekly_sent>>
    /\ UNCHANGED <<now, file, events, todays_high, passNo, covered, fault, fileAtStart,
                   loaded, evaluated, firedKeys, faults, persisted, failedKeys, badFeed>>

\* post_discord's error swallowed: the key is marked as if the post had succeeded
post_discord_raises_marked(replies) ==
    /\ UNCHANGED <<named, input, output>>
    /\ pc = "post"
    /\ post_discord(replies, 1) = "raise"
    /\ failedKeys' = failedKeys \cup { <<kind, CurKey(kind, now)>> }
    /\ AddKey(kind, CurKey(kind, now))
    /\ pc' = AfterCat(kind)
    /\ kind' = "none" /\ msgs' = <<>>
    /\ UNCHANGED <<now, file, events, todays_high, passNo, handed, delivered, covered,
                   fault, fileAtStart, loaded, evaluated, firedKeys, faults, persisted,
                   badFeed>>
\* post_discord raises RuntimeError (lines 172, 180) and main does not catch it
post_discord_raises(replies) ==
    /\ UNCHANGED <<named, input, output>>
    /\ pc = "post"
    /\ post_discord(replies, 1) = "raise"
    /\ failedKeys' = failedKeys \cup { <<kind, CurKey(kind, now)>> }
    /\ Raise("handoff")
    /\ UNCHANGED <<now, file, passNo, handed, delivered, covered, fileAtStart, loaded,
                   evaluated, firedKeys, persisted, badFeed>>

\* save_state, line 197: open(STATE_FILE, "w") empties the file
save_open ==
    /\ UNCHANGED <<named, input, output>>
    /\ pc = "save"
    /\ file' = PartialFile
    /\ pc' = "saving"
    /\ UNCHANGED <<now, reminded, daily_sent, results_sent, weekly_sent, events, todays_high,
                   kind, msgs, passNo, handed, delivered, covered, fault,
                   fileAtStart, loaded, evaluated, firedKeys, faults, persisted, failedKeys, badFeed>>

\* save_state, line 197: open raises (the file cannot be written)
save_open_raises ==
    /\ UNCHANGED <<named, input, output>>
    /\ pc = "save"
    /\ Raise("save")
    /\ UNCHANGED <<now, file, passNo, handed, delivered, covered, fileAtStart, loaded,
                   evaluated, firedKeys, persisted, failedKeys, badFeed>>

\* main lines 495-498 and save_state line 198: the four sets are written and the pass ends
save_dump ==
    /\ UNCHANGED <<named, input, output>>
    /\ pc = "saving"
    /\ file' = LedgerFile([reminded |-> reminded, daily_sent |-> daily_sent,
                           results_sent |-> results_sent, weekly_sent |-> weekly_sent])
    /\ persisted' = file'.data
    /\ pc' = "idle"
    /\ ClearMemory
    /\ UNCHANGED <<now, passNo, handed, delivered, covered, fault, fileAtStart, loaded,
                   evaluated, firedKeys, faults, failedKeys, badFeed>>

\* the process is killed in the middle of a pass
crash ==
    /\ UNCHANGED <<named, input, output>>
    /\ pc # "idle"
    /\ Raise("crash")
    /\ UNCHANGED <<now, file, passNo, handed, delivered, covered, fileAtStart, loaded,
                   evaluated, firedKeys, persisted, failedKeys, badFeed>>

\* what a running pass does
Step ==
    \/ fetch_raises
    \/ \E feed \in Feeds : fetch_and_filter(feed)
    \/ Daily
    \/ Reminder
    \/ Results
    \/ Weekly
    \/ \E replies \in Replies : post_discord_returns(replies)
    \/ \E replies \in Replies : post_discord_raises(replies)
    \/ save_open
    \/ save_open_raises
    \/ save_dump
    \/ crash

Next ==
    \/ \E t \in Instants : StartPass(t)
    \/ Step

Spec == Init /\ [][Next]_vars

\* passes at the fine instants, for the edges of the windows
FineNext ==
    \/ \E t \in FineInstants : StartFinePass(t)
    \/ Step

FineSpec == Init /\ [][FineNext]_vars

\* what the first pass may find in state.json: nothing, text that is not
\* JSON, JSON that is not an object, an object with a number under "reminded"
InitialFiles == { MissingFile, PartialFile, NotObjectFile, BadFieldFile(EmptyLedger) }
LoadInit == (\E f \in InitialFiles : PassInit(f, "idle")) /\ input = <<>> /\ output = <<>>
LoadSpec == LoadInit /\ [][FineNext]_vars

TypeOK ==
    /\ pc \in {"idle", "fetch", "daily", "reminder", "results", "weekly", "post", "save", "saving"}
    /\ passNo \in Nat

\* ---- the functions on their own ----
\* every variable of the pass
passvars == <<now, file, reminded, daily_sent, results_sent, weekly_sent, events, todays_high,
              kind, msgs, passNo, handed, delivered, covered, fault, fileAtStart, loaded,
              evaluated, firedKeys, faults, persisted, failedKeys, badFeed, named>>
\* no pass runs: `pc` is "call" before the function is applied to `input`
CallInit(inputs) == PassInit(MissingFile, "call") /\ input \in inputs /\ output = <<>>

\* block lists for chunk_messages: block i carries the title i, lengths run
\* from a short line to a block that fills a message on its own
BlockLens == { 10, 900, 1000, 1950 }
RECURSIVE BlockLists(_)
BlockLists(n) ==
    IF n = 0 THEN { <<>> }
    ELSE LET shorter == BlockLists(n - 1)
         IN  shorter \cup { Append(bs, Block(<<Len(bs) + 1>>, l)) :
                               bs \in { x \in shorter : Len(x) = n - 1 }, l \in BlockLens }
ChunkInputs ==
    { [blocks |-> bs, headerLen |-> h] :
        bs \in BlockLists(MaxBlocks), h \in { DailyHeaderLen, WeeklyHeaderLen } }

\* msgs = chunk_messages(blocks, header)
call_chunk_messages ==
    /\ pc = "call"
    /\ output' = chunk_messages(input.blocks, input.headerLen)
    /\ pc' = "returned"
    /\ UNCHANGED <<passvars, input>>

\* post_discord, line 123: content[:DISCORD_MAX_LEN]; `sent` is the length
\* of what goes to the webhook
truncate_content ==
    /\ pc = "returned"
    /\ output' = [i \in DOMAIN output |->
                    [blocks |-> output[i].blocks, len |-> output[i].len,
                     sent |-> IF output[i].len > DISCORD_MAX_LEN THEN DISCORD_MAX_LEN
                              ELSE output[i].len]]
    /\ pc' = "posted"
    /\ UNCHANGED <<passvars, input>>

ChunkNext == call_chunk_messages \/ truncate_content
ChunkSpec == CallInit(ChunkInputs) /\ [][ChunkNext]_vars

\* ev.get('title') on a record without that key gives None, which the
\* f-string of the block prints as "None"
NoTitle == Title("None", 4)
\* feed records as the site may spell them: the impact under "impact",
\* "importance" or "level" ("" where the key is absent), the title under
\* "title", "event" or "name"
RawRecords ==
    { [impact |-> i, importance |-> j, level |-> l, title |-> t, event |-> e, name |-> n,
       dtKind |-> "ok", at |-> Day + 18 * Hour + 30 * Minute] :
        i \in {"", "high", "HIGH", "LOW"}, j \in {"", "high", "HIGH"}, l \in {"", "high", "HIGH"},
        t \in {NoTitle, Title("T", 5)}, e \in {NoTitle, Title("E", 5)}, n \in {NoTitle, Title("N", 5)} }

\* main, lines 325-352, on a feed of one record dated today: its normalised
\* impact and the messages of the daily digest
call_daily_digest ==
    /\ pc = "call"
    /\ output' = [impact |-> normalize_impact(input),
                  msgs |-> daily_messages(SortByDt(HighIn(<<input>>, Day, 2 * Day)))]
    /\ pc' = "returned"
    /\ UNCHANGED <<passvars, input>>

NormalizeSpec == CallInit(RawRecords) /\ [][call_daily_digest]_vars

\* feeds for the ordering of the digests: HIGH events on day 1, some at the
\* same time, under two titles
SortEvents ==
    { Event("HIGH", "ok", t, Title(n, 5)) :
        t \in { Day + 10 * Hour, Day + 18 * Hour + 30 * Minute }, n \in {"A", "B"} }
SortFeeds == SeqsUpTo(SortEvents, MaxSorted)

\* main on the feed `input`: the daily digest of day 1 (lines 325-352) and
\* the weekly digest posted on day 0 for the week from day 1 (lines 453-490)
call_digests ==
    /\ pc = "call"
    /\ output' = [daily |-> daily_messages(SortByDt(HighIn(input, Day, 2 * Day))),
                  weekly |-> weekly_messages(input, Day, 8 * Day)]
    /\ pc' = "returned"
    /\ UNCHANGED <<passvars, input>>

SortSpec == CallInit(SortFeeds) /\ [][call_digests]_vars

\* calls of post_discord: the webhook URL is set or not, and the webhook's
\* replies up to the first one that ends the call
RECURSIVE RetryRuns(_)
RetryRuns(n) ==
    IF n = 0 THEN { <<>> }
    ELSE RetryRuns(n - 1) \cup
         { Append(r, k) : r \in { x \in RetryRuns(n - 1) : Len(x) = n - 1 }, k \in {"429", "error"} }
PostInputs ==
    { [url |-> u, replies |-> rs] :
        u \in BOOLEAN,
        rs \in { Append(r, k) : r \in RetryRuns(max_retries - 1), k \in {"ok", "429neg", "http"} }
               \cup { Append(r, k) : r \in { x \in RetryRuns(max_retries - 1) : Len(x) = max_retries - 1 },
                                      k \in {"429", "error"} } }

\* lines 120-126: no webhook URL raises before any attempt
post_discord_enter ==
    /\ pc = "call"
    /\ IF input.url
       THEN output' = [attempts |-> 0, result |-> "running"] /\ pc' = "loop"
       ELSE output' = [attempts |-> 0, result |-> "raise"] /\ pc' = "returned"
    /\ UNCHANGED <<passvars, input>>

\* lines 127-180: one attempt; after the last one line 180 raises
post_discord_attempt ==
    /\ pc = "loop"
    /\ LET attempt == output.attempts + 1
           o == attempt_outcome(input.replies[attempt])
       IN  IF o = "again" /\ attempt < max_retries
           THEN output' = [attempts |-> attempt, result |-> "running"] /\ pc' = "loop"
           ELSE /\ output' = [attempts |-> attempt,
                              result |-> IF o = "again" THEN "raise" ELSE o]
                /\ pc' = "returned"
    /\ UNCHANGED <<passvars, input>>

PostNext == post_discord_enter \/ post_discord_attempt
PostSpec == CallInit(PostInputs) /\ [][PostNext]_vars

\* ---- properties ----
\* the key set of category c in ledger l
SetOf(l, c) ==
    IF c = "daily" THEN l.daily_sent
    ELSE IF c = "reminder" THEN l.reminded
    ELSE IF c = "results" THEN l.results_sent
    ELSE l.weekly_sent
Memory == [reminded |-> reminded, daily_sent |-> daily_sent,
           results_sent |-> results_sent, weekly_sent |-> weekly_sent]
Records(log, c, k) == { r \in log : r.cat = c /\ r.key = k }

\* C1: once every message of a category's occurrence was accepted by the
\* notifier in some pass, no later pass hands a message of the same category
\* and occurrence to the notifier, also when handoffs failed in between
\* (passes ended by anything but a failed handoff are left aside).
C1_AtMostOneDelivery ==
    faults \subseteq {"handoff"} =>
        \A d \in delivered : \A h \in Records(handed, d.cat, d.key) : h.pass <= d.pass

\* C2: as long as every pass so far ran through to a completed save (feed,
\* handoffs and save all succeeded), each occurrence whose window contained the
\* start of a pass has been delivered exactly once when the pass is over, and
\* no message of it was handed over in any other pass.
C2_ExactlyOneInWindow ==
    (pc = "idle" /\ faults = {}) =>
        \A o \in covered :
            /\ Cardinality(Records(delivered, o[1], o[2])) = 1
            /\ Records(handed, o[1], o[2]) = Records(delivered, o[1], o[2])
\* two completed passes, the second one inside the window of an occurrence
\* that the first one delivered
C2_Witness ==
    /\ pc = "idle" /\ faults = {} /\ passNo >= 2
    /\ \E d \in delivered : d.pass < passNo /\ InWindow(now, d.cat, d.key)

\* C3: for an occurrence whose key is not in the loaded ledger, a pass one
\* second before the anchor does not fire it, a pass at the anchor fires it
\* when it evaluates the category, and a pass at anchor + tolerance does not
\* fire it.
C3_WindowClosure ==
    \A o \in Occurrences :
        o[2] \notin SetOf(loaded, o[1]) =>
            /\ now = Anchor(o[1], o[2]) - 1 => o \notin firedKeys
            /\ (now = Anchor(o[1], o[2]) /\ o[1] \in evaluated) => o \in firedKeys
            /\ now = Anchor(o[1], o[2]) + Tolerance(o[1]) => o \notin firedKeys
\* a pass at Sunday 18:00, the anchor of the weekly window, has evaluated
\* every category and fired the weekly digest
C3_Witness ==
    /\ \E o \in firedKeys : o[1] = "weekly" /\ now = Anchor(o[1], o[2])
    /\ evaluated = CatSet
\* a pass at the exclusive end of a window whose key is still absent
C3_WitnessEnd ==
    /\ evaluated = CatSet
    /\ \E o \in Occurrences :
          /\ o[1] = "results"
          /\ o[2] \notin SetOf(loaded, o[1])
          /\ now = Anchor(o[1], o[2]) + Tolerance(o[1])

\* C4: an occurrence whose window contained the start of no pass is never
\* handed to the notifier, in particular not by a pass after the window.
C4_MissedWindowSkipped ==
    \A h \in handed : <<h.cat, h.key>> \in covered
\* a completed pass after the close of a window that no pass fell into
C4_Witness ==
    /\ pc = "idle" /\ fault = "none" /\ passNo >= 1
    /\ \E o \in Occurrences :
          /\ o \notin covered
          /\ Anchor(o[1], o[2]) >= 0
          /\ now >= Anchor(o[1], o[2]) + Tolerance(o[1])

\* C5: a pass in which a handoff failed still evaluates every category and
\* persists the keys of the categories it delivered.
C5_FailureContained ==
    (pc = "idle" /\ fault = "handoff") =>
        /\ evaluated = CatSet
        /\ \A d \in delivered :
              d.pass = passNo => d.key \in SetOf(load_state(file), d.cat)

\* C6: a key is in a category's in-memory set only if it was loaded or the
\* category was delivered in this pass; a key is in the persisted ledger only
\* if the category was delivered; and a category whose handoff failed fires
\* again in a pass that evaluates it inside the window, unless an earlier
\* pass delivered it.
C6_MarkOnlyAfterSuccess ==
    /\ \A c \in CatSet :
          /\ SetOf(Memory, c) \subseteq
                SetOf(loaded, c) \cup { d.key : d \in { r \in delivered : r.cat = c /\ r.pass = passNo } }
          /\ SetOf(load_state(file), c) \subseteq { d.key : d \in { r \in delivered : r.cat = c } }
    /\ \A o \in failedKeys :
          ( /\ o[1] \in evaluated
            /\ InWindow(now, o[1], o[2])
            /\ \A d \in Records(delivered, o[1], o[2]) : d.pass >= passNo )
          => o \in firedKeys
\* a category whose handoff failed in an earlier pass is delivered in this one
C6_Witness ==
    \E d \in delivered :
        /\ d.pass = passNo
        /\ <<d.cat, d.key>> \in failedKeys
        /\ d.key \in SetOf(Memory, d.cat)

\* C7: a pass whose feed retrieval failed has ended, has evaluated and
\* handed over nothing, and has left the ledger file as it found it.
C7_FetchFailureAborts ==
    fault = "fetch" =>
        /\ pc = "idle"
        /\ file = fileAtStart
        /\ evaluated = {} /\ firedKeys = {}
        /\ \A h \in handed : h.pass # passNo
\* a failed fetch in a pass that found keys in the ledger
C7_Witness ==
    /\ fault = "fetch"
    /\ file.kind = "ledger" /\ file.data.daily_sent # {}

\* C8: after a pass in which every daily message for date D was accepted, a
\* later pass on date D finds D's key in the reloaded ledger and hands no
\* daily message over (passes ended by anything but a failed handoff are
\* left aside).
C8_DailyDurable ==
    faults \subseteq {"handoff"} =>
        \A d \in Records(delivered, "daily", daily_key(now)) :
            d.pass < passNo =>
                /\ d.key \in loaded.daily_sent
                /\ \A h \in Records(handed, "daily", d.key) : h.pass # passNo

\* C9: between passes the ledger file yields every key that the last
\* completed save wrote.
C9_AtomicSave ==
    pc = "idle" => \A c \in CatSet : SetOf(persisted, c) \subseteq SetOf(load_state(file), c)

\* C10: a HIGH record whose timestamp is missing or does not parse never
\* ends the pass.
C10_MalformedDiscarded ==
    badFeed => fault # "malformed"

\* C11: a pass that finds state.json missing, not valid JSON, or holding
\* something else than the record of four key lists does not fail on loading
\* the ledger and works with four empty key sets.
C11_LedgerLoadNeverFails ==
    (passNo > 0 /\ fileAtStart.kind # "ledger") =>
        /\ fault # "ledger"
        /\ loaded = EmptyLedger
        /\ pc \notin {"idle", "fetch"} =>
              reminded \cup daily_sent \cup results_sent \cup weekly_sent
                 \subseteq { o[2] : o \in firedKeys }

\* the pass is past the reminder block of main and still running
PastReminder == pc \in {"results", "weekly", "save", "saving"}

\* C12 as stated: events are reminded one by one, so a pass that evaluates
\* the reminder inside the reminder window leaves no HIGH event of today that
\* is still ahead without a reminder naming it, whatever reminder was
\* recorded for the date before.
C12_ReminderPerEvent ==
    (PastReminder /\ \E k \in OccKeys("reminder") : InWindow(now, "reminder", k)) =>
        \A i \in DOMAIN todays_high :
            todays_high[i].at >= now => todays_high[i].title.name \in named

\* C12, amended: the reminder is scoped to the date.  Its keys are date keys;
\* a pass that evaluates it fires it exactly when now is in [10:00, 24:00) of
\* a date whose key reminder-<date> is not in the loaded ledger; a delivered
\* reminder names every HIGH event of today in the feed of that pass; and a
\* pass that loaded the key hands no reminder over, whatever events the feed holds.
C12_ReminderPerDate ==
    /\ \A k \in reminded \cup loaded.reminded :
          k.prefix = "reminder-" /\ k.unit = "date"
    /\ "reminder" \in evaluated =>
          \A k \in OccKeys("reminder") :
              <<"reminder", k>> \in firedKeys
                 <=> (InWindow(now, "reminder", k) /\ k \notin loaded.reminded)
    /\ \A h \in Records(handed, "reminder", reminder_key(now)) :
          h.pass = passNo => h.key \notin loaded.reminded
    /\ (PastReminder /\ \E d \in delivered : d.cat = "reminder" /\ d.pass = passNo) =>
          \A i \in DOMAIN todays_high : todays_high[i].title.name \in named
\* a pass that loaded the date's reminder key skips the reminder although a
\* HIGH event of today is still ahead and no reminder has named it
C12_Witness ==
    /\ PastReminder
    /\ reminder_key(now) \in loaded.reminded
    /\ InWindow(now, "reminder", reminder_key(now))
    /\ \E i \in DOMAIN todays_high :
          todays_high[i].at >= now /\ todays_high[i].title.name \notin named

\* the blocks of the messages ms, one message after the other
RECURSIVE BlocksOf(_)
BlocksOf(ms) == IF ms = <<>> THEN <<>> ELSE Head(ms).blocks \o BlocksOf(Tail(ms))

\* C13: the blocks of the messages that chunk_messages returns, read message
\* by message, are the input blocks, each once and in the input's order.
C13_ChunkCompleteness ==
    pc = "returned" => BlocksOf(output) = input.blocks
\* three blocks were spread over more than one message
C13_Witness ==
    /\ pc = "returned"
    /\ Len(input.blocks) = 3
    /\ Len(output) >= 2
    /\ \E i \in DOMAIN output : Len(output[i].blocks) = 2

\* C14: no message that chunk_messages returns is longer than
\* DISCORD_MAX_LEN, so post_discord sends every message in full.
C14_MessagesFit ==
    /\ pc = "returned" => \A i \in DOMAIN output : output[i].len <= DISCORD_MAX_LEN
    /\ pc = "posted" => \A i \in DOMAIN output : output[i].sent = output[i].len

\* the first non-empty value among a field's spellings
ResolvedImpact(ev) ==
    Upper(IF ev.impact # "" THEN ev.impact
          ELSE IF ev.importance # "" THEN ev.importance ELSE ev.level)
ResolvedTitle(ev) ==
    IF ev.title # NoTitle THEN ev.title
    ELSE IF ev.event # NoTitle THEN ev.event ELSE ev.name

\* C15: a record's impact is the upper-cased first non-empty value among
\* "impact", "importance" and "level", and a record whose impact so resolved
\* is HIGH is shown in the daily digest under its title, the first value
\* present among "title", "event" and "name".
C15_AliasesResolved ==
    pc = "returned" =>
        /\ output.impact = ResolvedImpact(input)
        /\ ResolvedImpact(input) = "HIGH" =>
              \E i \in DOMAIN output.msgs : ResolvedTitle(input).name \in TitlesIn(output.msgs[i])

\* the order the claim asks for: by time, events at the same time by title
TitleRank(name) == IF name = "A" THEN 1 ELSE 2
Precedes(a, b) ==
    a.at < b.at \/ (a.at = b.at /\ TitleRank(a.title.name) <= TitleRank(b.title.name))
RECURSIVE InsertByDtTitle(_, _)
InsertByDtTitle(sorted, ev) ==
    IF sorted = <<>> THEN <<ev>>
    ELSE IF Precedes(Head(sorted), ev) THEN <<Head(sorted)>> \o InsertByDtTitle(Tail(sorted), ev)
    ELSE <<ev>> \o sorted
RECURSIVE SortByDtTitle(_)
SortByDtTitle(evs) ==
    IF evs = <<>> THEN <<>> ELSE InsertByDtTitle(SortByDtTitle(Tail(evs)), Head(evs))
\* the titles that the messages ms show, top to bottom
RECURSIVE TitlesOfBlocks(_)
TitlesOfBlocks(bs) == IF bs = <<>> THEN <<>> ELSE Head(bs).titles \o TitlesOfBlocks(Tail(bs))
TitlesShown(ms) == TitlesOfBlocks(BlocksOf(ms))

\* C17: the daily and the weekly digest show their events by ascending time
\* and events at the same time by title, so the order shown depends on the
\* events of the feed only, not on the feed's order.
C17_DigestOrder ==
    pc = "returned" =>
        LET wanted == SortByDtTitle(input)
            titles == [i \in DOMAIN wanted |-> wanted[i].title.name]
        IN  TitlesShown(output.daily) = titles /\ TitlesShown(output.weekly) = titles

\* C16: whenever the results digest fires, its key is the one of the date on
\* which the window containing now started (23:00), also after midnight, it
\* was absent from the loaded ledger, and the events shown are that date's;
\* a pass that evaluates the results inside a window whose key is absent
\* fires it; and while no pass has failed, no results key is delivered twice.
C16_ResultsWindowStart ==
    /\ \A o \in firedKeys :
          o[1] = "results" =>
              /\ o[2].n * Day + RESULTS_START_HOUR * Hour <= now
              /\ now < o[2].n * Day + RESULTS_START_HOUR * Hour + RESULTS_WINDOW_MINUTES * Minute
              /\ o[2] \notin loaded.results_sent
              /\ (pc = "post" /\ kind = "results") =>
                    \A i \in DOMAIN msgs :
                        TitlesIn(msgs[i]) \subseteq
                            { events[j].title.name :
                                j \in { x \in DOMAIN events :
                                          /\ events[x].dtKind = "ok"
                                          /\ events[x].at \div Day = o[2].n } }
    /\ "results" \in evaluated =>
          \A k \in OccKeys("results") :
              (InWindow(now, "results", k) /\ k \notin loaded.results_sent)
                  => <<"results", k>> \in firedKeys
    /\ faults = {} =>
          \A k \in OccKeys("results") : Cardinality(Records(delivered, "results", k)) <= 1
\* a pass after midnight, inside the window that opened at 23:00 the day
\* before, finds that day's key loaded and does not fire the results again
C16_Witness ==
    /\ "results" \in evaluated
    /\ \E d \in delivered :
          /\ d.cat = "results" /\ d.pass < passNo
          /\ InWindow(now, "results", d.key)
          /\ now >= (d.key.n + 1) * Day
          /\ d.key \in loaded.results_sent
          /\ <<"results", d.key>> \notin firedKeys
\* a pass after midnight delivers the results under the key of the day before
C16_WitnessAfterMidnight ==
    \E d \in delivered :
        d.cat = "results" /\ d.pass = passNo /\ now >= (d.key.n + 1) * Day

\* the keys that category c delivered in the running pass
DeliveredNow(c) == { d.key : d \in { r \in delivered : r.cat = c /\ r.pass = passNo } }

\* C19: during a pass each in-memory set is the loaded set plus the key its
\* own category delivered in this pass, at most one, so a fire touches no
\* other set and nothing is removed; after a pass that ran to the end the
\* ledger file holds, per category, a superset of what the pass loaded.
C19_LedgerFrame ==
    /\ pc # "idle" =>
          \A c \in CatSet :
              /\ SetOf(Memory, c) = SetOf(loaded, c) \cup DeliveredNow(c)
              /\ Cardinality(DeliveredNow(c)) <= 1
    /\ (pc = "idle" /\ fault = "none" /\ passNo > 0) =>
          /\ file.kind = "ledger"
          /\ \A c \in CatSet :
                SetOf(file.data, c) = SetOf(loaded, c) \cup DeliveredNow(c)
\* a completed pass that loaded keys and delivered a category of its own
C19_Witness ==
    /\ pc = "idle" /\ fault = "none"
    /\ \E c \in CatSet : SetOf(loaded, c) # {}
    /\ \E c \in CatSet : DeliveredNow(c) # {} /\ DeliveredNow(c) \cap SetOf(loaded, c) = {}

\* C20: the weekly digest fires only in a pass whose now is a Sunday at or
\* after 18:00, under the key of the ISO week that ends on that Sunday, and
\* only when that key is not in the loaded ledger; while no pass has failed,
\* no week's digest is delivered twice.
C20_WeeklyOncePerWeek ==
    /\ \A o \in firedKeys :
          o[1] = "weekly" =>
              /\ (now \div Day) % 7 = 0
              /\ now % Day >= WEEKLY_SUNDAY_START_HOUR * Hour
              /\ o[2].unit = "week" /\ 7 * o[2].n = now \div Day
              /\ o[2] \notin loaded.weekly_sent
    /\ faults = {} =>
          \A k \in OccKeys("weekly") : Cardinality(Records(delivered, "weekly", k)) <= 1
\* a second pass on the Sunday evening finds the week's key and does not fire
C20_Witness ==
    /\ "weekly" \in evaluated
    /\ (now \div Day) % 7 = 0 /\ now % Day >= WEEKLY_SUNDAY_START_HOUR * Hour
    /\ weekly_key(now) \in loaded.weekly_sent
    /\ \A o \in firedKeys : o[1] # "weekly"
    /\ \E d \in delivered : d.cat = "weekly" /\ d.pass < passNo

\* C18: post_discord makes at most max_retries attempts and ends by
\* returning or raising; a call that has ended after a reply of 429 or after
\* an error that is not an HTTP error has used up all attempts and raised;
\* a call still running has seen only such replies; and the stepwise loop
\* ends as post_discord's result says.
C18_PostDiscordTerminates ==
    /\ pc \in {"loop", "returned"} =>
          /\ output.attempts <= max_retries
          /\ \A i \in 1 .. output.attempts :
                i < output.attempts => input.replies[i] \in {"429", "429neg", "error"}
    /\ pc = "loop" => output.attempts < max_retries
    /\ (pc = "returned" /\ input.url) =>
          /\ output.result \in {"return", "raise"}
          /\ output.result = post_discord(input.replies, 1)
          /\ output.result = "return" <=> input.replies[output.attempts] = "ok"
          /\ input.replies[output.attempts] \in {"429", "429neg", "error"} =>
                output.attempts = max_retries /\ output.result = "raise"

====
